---------------------------- MODULE Spec2Model ----------------------------
(***************************************************************************)
(* Solar panel optimizer: the Streamlit dashboard                          *)
(* (src/solar_optimizer_app.py) and the batch script                       *)
(* (src/solar_optimizer_excel.py).                                         *)
(*                                                                         *)
(* Numbers.  Python floats are modelled in fixed point:                    *)
(*   angles            hundredths of a degree (3777 = 37.77 deg)           *)
(*   sines, cosines    units of 1/Scale                                    *)
(*   irradiance        whole W/m2 as delivered by the provider             *)
(*   temperature       whole degrees Celsius                               *)
(*   temp coefficient  hundredths of %/degC (-45 = -0.45 %/degC), so that  *)
(*                     temp_coefficient / 100 is the same integer in units *)
(*                     of 1/Scale                                          *)
(*   power, energy     units of 1/Scale W (Wh)                             *)
(*   system size       tenths of a kW, efficiencies whole percent          *)
(* Every product of two scaled values is rounded down to the unit, where   *)
(* the float product is rounded to the nearest double.                     *)
(***************************************************************************)
EXTENDS Integers, Sequences, FiniteSets, TLC

Scale == 10 * 1000

\* a JSON value is null or a number: << >> is None, << v >> is the number v
Null == << >>
Some(v) == << v >>

Max(a, b) == IF a >= b THEN a ELSE b
Min(a, b) == IF a <= b THEN a ELSE b
Abs(a) == IF a < 0 THEN -a ELSE a

\* floor(a * b / c) for c > 0 without forming a * b when a is large
MulDiv(a, b, c) == (a \div c) * b + ((a % c) * b) \div c

\* product of two values in units of 1/Scale
MulFix(a, b) == MulDiv(a, b, Scale)

(***************************************************************************)
(* math.sin, math.cos, math.tan, math.asin, math.acos, math.atan2 on       *)
(* degrees (the code always wraps them in math.radians / math.degrees).    *)
(* SinTab[d + 1] = sin(d deg) * Scale for d = 0 .. 90; between whole       *)
(* degrees the value is interpolated linearly.                             *)
(***************************************************************************)
SinTab ==
   << 0, 175, 349, 523, 698, 872, 1045, 1219, 1392, 1564,
      1736, 1908, 2079, 2250, 2419, 2588, 2756, 2924, 3090, 3256,
      3420, 3584, 3746, 3907, 4067, 4226, 4384, 4540, 4695, 4848,
      5000, 5150, 5299, 5446, 5592, 5736, 5878, 6018, 6157, 6293,
      6428, 6561, 6691, 6820, 6947, 7071, 7193, 7314, 7431, 7547,
      7660, 7771, 7880, 7986, 8090, 8192, 8290, 8387, 8480, 8572,
      8660, 8746, 8829, 8910, 8988, 9063, 9135, 9205, 9272, 9336,
      9397, 9455, 9511, 9563, 9613, 9659, 9703, 9744, 9781, 9816,
      9848, 9877, 9903, 9925, 9945, 9962, 9976, 9986, 9994, 9998,
      10000 >>

\* sin of d whole degrees plus f hundredths, within [0, 90] degrees
SinInterp(d, f) ==
    IF f = 0 THEN SinTab[d + 1]
    ELSE SinTab[d + 1] + ((SinTab[d + 2] - SinTab[d + 1]) * f) \div 100

\* sin of an angle in [0, 9000]
SinQ(a) == SinInterp(a \div 100, a % 100)

\* sin of an angle in [0, 36000)
SinR(r) ==
    IF r <= 9000 THEN SinQ(r)
    ELSE IF r <= 18000 THEN SinQ(18000 - r)
    ELSE IF r <= 27000 THEN -SinQ(r - 18000)
    ELSE -SinQ(36000 - r)

Sin(a) == SinR(a % 36000)

Cos(a) == Sin(a + 9000)

Tan(a) == (Sin(a) * Scale) \div Cos(a)

\* the angle between d and d + 1 degrees whose sine is x
AsinInterp(x, d) ==
    d * 100 + ((x - SinTab[d + 1]) * 100) \div (SinTab[d + 2] - SinTab[d + 1])

\* asin of x in [0, Scale], in [0, 9000]
AsinQ(x) ==
    IF x = Scale THEN 9000
    ELSE AsinInterp(x, CHOOSE k \in 0..89 : SinTab[k + 1] <= x /\ x < SinTab[k + 2])

\* math.asin is defined on [-1, 1] only
Asin(x) == IF x >= 0 THEN AsinQ(x) ELSE -AsinQ(-x)

Acos(x) == 9000 - Asin(x)

\* sin(k) * q - cos(k) * p: rises through 0 where tan(k) = p / q
AtanF(p, q, k) == (SinTab[k + 1] * q - SinTab[91 - k] * p) \div 1000

\* the angle between d and d + 1 degrees whose tangent is p / q
AtanInterp(p, q, d) ==
    d * 100 + ((-AtanF(p, q, d)) * 100) \div (AtanF(p, q, d + 1) - AtanF(p, q, d))

\* atan of the ratio p / q of two values >= 0, not both 0, in [0, 9000]
AtanQ(p, q) ==
    IF q = 0 THEN 9000
    ELSE IF p = 0 THEN 0
    ELSE AtanInterp(p, q, CHOOSE k \in 0..89 :
                              AtanF(p, q, k) <= 0 /\ AtanF(p, q, k + 1) > 0)

\* math.atan2(y, x), in (-18000, 18000]
Atan2(y, x) ==
    IF x = 0 /\ y = 0 THEN 0
    ELSE IF x >= 0 /\ y >= 0 THEN AtanQ(y, x)
    ELSE IF x < 0 /\ y >= 0 THEN 18000 - AtanQ(y, -x)
    ELSE IF x < 0 THEN AtanQ(-y, -x) - 18000
    ELSE -AtanQ(-y, x)

-----------------------------------------------------------------------------
(***************************************************************************)
(* Timestamps.  The provider sends ISO-8601 text "YYYY-MM-DDTHH:MM",       *)
(* modelled as the tuple of its five numeric fields; the code parses it    *)
(* into a datetime, modelled as a record.                                  *)
(***************************************************************************)
fromisoformat(t) ==
    [year |-> t[1], month |-> t[2], day |-> t[3], hour |-> t[4], minute |-> t[5]]

\* datetime.date()
date(ts) == [year |-> ts.year, month |-> ts.month, day |-> ts.day]

IsLeap(y) == (y % 4 = 0 /\ y % 100 # 0) \/ y % 400 = 0

DaysBefore == << 0, 31, 59, 90, 120, 151, 181, 212, 243, 273, 304, 334 >>

\* timestamp.timetuple().tm_yday
tm_yday(ts) ==
    DaysBefore[ts.month] + ts.day
      + (IF ts.month > 2 /\ IsLeap(ts.year) THEN 1 ELSE 0)

\* chronological order of two ISO timestamps (lexicographic on the fields)
IsoLeq(a, b) ==
    \E k \in 1..6 :
        /\ \A j \in 1..(k - 1) : a[j] = b[j]
        /\ (k = 6 \/ a[k] < b[k])

-----------------------------------------------------------------------------
(***************************************************************************)
(* Solar position, shared by calculate_solar_power (dashboard) and         *)
(* calculate_power (script): the two functions repeat the same lines.      *)
(***************************************************************************)
\* declination = 23.45 * sin(radians((284 + day_of_year) * 360.0 / 365))
Declination(day_of_year) ==
    (2345 * Sin(((284 + day_of_year) * 36000) \div 365)) \div Scale

\* hour = timestamp.hour + timestamp.minute / 60.0; hour_angle = (hour - 12) * 15
HourAngle(ts) == ((ts.hour * 60 + ts.minute) - 720) * 25

\* sin(decl) sin(lat) + cos(decl) cos(lat) cos(hour_angle)
SinElevation(lat, declination, hour_angle) ==
    MulFix(Sin(declination), Sin(lat))
      + MulFix(MulFix(Cos(declination), Cos(lat)), Cos(hour_angle))

\* elevation = degrees(asin(...))
Elevation(lat, ts) ==
    Asin(SinElevation(lat, Declination(tm_yday(ts)), HourAngle(ts)))

\* if solar_azimuth < 0: solar_azimuth += 360
Wrap360(a) == IF a < 0 THEN a + 36000 ELSE a

\* degrees(atan2(-sin(ha), tan(decl) cos(lat) - sin(lat) cos(ha)))
Atan2Azimuth(lat, declination, hour_angle) ==
    Atan2(-Sin(hour_angle),
          MulFix(Tan(declination), Cos(lat)) - MulFix(Sin(lat), Cos(hour_angle)))

SolarAzimuth(lat, ts) ==
    Wrap360(Atan2Azimuth(lat, Declination(tm_yday(ts)), HourAngle(ts)))

\* cos_incidence = max(-1, min(1, cos_incidence))
Clamp(c) == Max(-Scale, Min(Scale, c))

\* angle between sun vector and panel normal, clamped before acos
calculate_angle_of_incidence(sun_azimuth, sun_elevation, panel_azimuth, panel_tilt) ==
    Acos(Clamp(MulFix(Sin(sun_elevation), Cos(panel_tilt))
                 + MulFix(MulFix(Cos(sun_elevation), Sin(panel_tilt)),
                          Cos(sun_azimuth - panel_azimuth))))

\* direct * cosine_factor + diffuse * (1 + cos tilt) / 2
\*   + shortwave * 0.2 * (1 - cos tilt) / 2
TotalRadiation(angle_of_incidence, tilt, direct_normal, diffuse, shortwave) ==
    direct_normal * Max(0, Cos(angle_of_incidence))
      + (diffuse * (Scale + Cos(tilt))) \div 2
      + (shortwave * 2 * (Scale - Cos(tilt))) \div 20

\* the lines of both power functions between the horizon test and the
\* temperature effect
PanelRadiation(lat, azimuth, tilt, direct_normal, diffuse, shortwave, ts, elevation) ==
    TotalRadiation(
        calculate_angle_of_incidence(SolarAzimuth(lat, ts), elevation, azimuth, tilt),
        tilt, direct_normal, diffuse, shortwave)

\* variant: the product returned as it is, without max(0, power)
SolarPowerUnclamped(total_radiation, temperature, temp_coefficient) ==
    MulFix(total_radiation, Scale + (temperature - 25) * temp_coefficient)

\* dashboard: temp_effect = 1 + (temperature - 25) * (temp_coefficient / 100);
\*            power = total_radiation * temp_effect; return max(0, power)
SolarPowerAbove(total_radiation, temperature, temp_coefficient) ==
    Max(0, MulFix(total_radiation, Scale + (temperature - 25) * temp_coefficient))

\* variant: no horizon test, the radiation terms are summed at night too
SolarPowerNoHorizon(elevation, lat, azimuth, tilt, direct_normal, diffuse, shortwave, timestamp, temperature, temp_coefficient) ==
    SolarPowerAbove(
        PanelRadiation(lat, azimuth, tilt, direct_normal, diffuse, shortwave,
                       timestamp, elevation),
        temperature, temp_coefficient)

\* dashboard: if elevation <= 0: return 0
SolarPowerAt(elevation, lat, azimuth, tilt, direct_normal, diffuse, shortwave, timestamp, temperature, temp_coefficient) ==
    IF elevation <= 0 THEN 0
    ELSE SolarPowerAbove(
             PanelRadiation(lat, azimuth, tilt, direct_normal, diffuse, shortwave,
                            timestamp, elevation),
             temperature, temp_coefficient)

calculate_solar_power(lat, lon, azimuth, tilt, direct_normal, diffuse, shortwave, timestamp, temperature, temp_coefficient) ==
    SolarPowerAt(Elevation(lat, timestamp), lat, azimuth, tilt, direct_normal,
                 diffuse, shortwave, timestamp, temperature, temp_coefficient)

\* variant: the derated radiation without the factor 0.95
PowerAboveUnscaled(total_radiation, temperature) ==
    Max(0, MulFix(total_radiation, Scale + (temperature - 25) * (-40)))

\* script: temp_effect = 1 + (temperature - 25) * (-0.004);
\*         power = total_radiation * temp_effect * 0.95; return max(0, power)
PowerAbove(total_radiation, temperature) ==
    Max(0, MulFix(MulFix(total_radiation, Scale + (temperature - 25) * (-40)), 9500))

\* script: if elevation <= 0: return 0
PowerAt(elevation, lat, azimuth, tilt, direct_normal, diffuse, shortwave, timestamp, temperature) ==
    IF elevation <= 0 THEN 0
    ELSE PowerAbove(
             PanelRadiation(lat, azimuth, tilt, direct_normal, diffuse, shortwave,
                            timestamp, elevation),
             temperature)

calculate_power(lat, lon, azimuth, tilt, direct_normal, diffuse, shortwave, timestamp, temperature) ==
    PowerAt(Elevation(lat, timestamp), lat, azimuth, tilt, direct_normal,
            diffuse, shortwave, timestamp, temperature)

-----------------------------------------------------------------------------
(***************************************************************************)
(* Orientation and temperature coefficient.                                *)
(***************************************************************************)
\* variant: the equator faces north
AnglesEquatorNorth(latitude) ==
    [azimuth    |-> IF latitude > 0 THEN 18000 ELSE 0,
     hemisphere |-> IF latitude > 0 THEN "Northern" ELSE "Southern",
     direction  |-> IF latitude > 0 THEN "South" ELSE "North",
     tilt       |-> IF Abs(latitude) < 2500 THEN (Abs(latitude) * 87) \div 100
                    ELSE IF Abs(latitude) < 5000 THEN Abs(latitude)
                    ELSE (Abs(latitude) * 9) \div 10,
     zone       |-> IF Abs(latitude) < 2500 THEN "Tropical"
                    ELSE IF Abs(latitude) < 5000 THEN "Temperate"
                    ELSE "High Latitude"]

\* dashboard: (optimal_azimuth, optimal_tilt, hemisphere, direction, zone)
calculate_optimal_angles(latitude) ==
    LET abs_latitude == Abs(latitude)
    IN  [azimuth    |-> IF latitude >= 0 THEN 18000 ELSE 0,
         hemisphere |-> IF latitude >= 0 THEN "Northern" ELSE "Southern",
         direction  |-> IF latitude >= 0 THEN "South" ELSE "North",
         tilt       |-> IF abs_latitude < 2500 THEN (abs_latitude * 87) \div 100
                        ELSE IF abs_latitude < 5000 THEN abs_latitude
                        ELSE (abs_latitude * 9) \div 10,
         zone       |-> IF abs_latitude < 2500 THEN "Tropical"
                        ELSE IF abs_latitude < 5000 THEN "Temperate"
                        ELSE "High Latitude"]

\* variant: 25 and 50 degrees fall in the lower band
ScriptAnglesClosedBands(latitude, longitude) ==
    [azimuth |-> IF latitude >= 0 THEN 18000 ELSE 0,
     tilt    |-> IF Abs(latitude) <= 2500 THEN (Abs(latitude) * 87) \div 100
                 ELSE IF Abs(latitude) <= 5000 THEN Abs(latitude)
                 ELSE (Abs(latitude) * 9) \div 10]

\* script: (optimal_azimuth, optimal_tilt); longitude is not read
script_calculate_optimal_angles(latitude, longitude) ==
    LET abs_latitude == Abs(latitude)
    IN  [azimuth |-> IF latitude >= 0 THEN 18000 ELSE 0,
         tilt    |-> IF abs_latitude < 2500 THEN (abs_latitude * 87) \div 100
                     ELSE IF abs_latitude < 5000 THEN abs_latitude
                     ELSE (abs_latitude * 9) \div 10]

\* variant: a band boundary falls in the lower band
CoefficientClosedBands(latitude) ==
    IF Abs(latitude) <= 1500 THEN -45
    ELSE IF Abs(latitude) <= 3000 THEN -42
    ELSE IF Abs(latitude) <= 4500 THEN -40
    ELSE IF Abs(latitude) <= 6000 THEN -38
    ELSE -35

\* variant: one coefficient at every latitude
FixedCoefficient(latitude) == -40

calculate_temperature_coefficient(latitude) ==
    LET abs_latitude == Abs(latitude)
    IN  IF abs_latitude < 1500 THEN -45
        ELSE IF abs_latitude < 3000 THEN -42
        ELSE IF abs_latitude < 4500 THEN -40
        ELSE IF abs_latitude < 6000 THEN -38
        ELSE -35

\* variant: the azimuth read as measured from south
DirectionFromSouth(azimuth) ==
    IF azimuth >= 15750 /\ azimuth < 20250 THEN "North"
    ELSE IF azimuth >= 33750 \/ azimuth < 2250 THEN "South"
    ELSE "Unknown"

\* script: compass direction of an azimuth
get_direction(azimuth) ==
    IF azimuth >= 33750 \/ azimuth < 2250 THEN "North"
    ELSE IF azimuth >= 2250 /\ azimuth < 6750 THEN "Northeast"
    ELSE IF azimuth >= 6750 /\ azimuth < 11250 THEN "East"
    ELSE IF azimuth >= 11250 /\ azimuth < 15750 THEN "Southeast"
    ELSE IF azimuth >= 15750 /\ azimuth < 20250 THEN "South"
    ELSE IF azimuth >= 20250 /\ azimuth < 24750 THEN "Southwest"
    ELSE IF azimuth >= 24750 /\ azimuth < 29250 THEN "West"
    ELSE IF azimuth >= 29250 /\ azimuth < 33750 THEN "Northwest"
    ELSE "Unknown"

-----------------------------------------------------------------------------
(***************************************************************************)
(* A Python call either returns a value or raises: [exc, value].           *)
(***************************************************************************)
Returned(v) == [exc |-> "none", value |-> v]
Raised(e) == [exc |-> e, value |-> Null]

(***************************************************************************)
(* The weather provider.  requests.get(url) raises ConnectionError or      *)
(* returns a response [status_code, json]; json maps "hourly" to a dict    *)
(* from field name to a list, one entry per hour, any entry possibly None. *)
(* A Python dict is a function; a key the dict lacks is outside its        *)
(* DOMAIN.                                                                 *)
(***************************************************************************)
ValueFields ==
    << "temperature_2m", "diffuse_radiation", "direct_normal_irradiance", "shortwave_radiation" >>

HourlyFields == << "time" >> \o ValueFields

Range(q) == { q[i] : i \in DOMAIN q }

\* the well-formed payload of a sequence of provider rows
Hourly(rows) ==
    [f \in Range(HourlyFields) |-> [i \in 1..Len(rows) |-> rows[i][f]]]

\* a payload as the provider may damage it
Damage(hourly, defect) ==
    IF defect[1] = "missing" THEN [g \in (DOMAIN hourly) \ {defect[2]} |-> hourly[g]]
    ELSE IF defect[1] = "short"
         THEN [hourly EXCEPT ![defect[2]] = SubSeq(@, 1, Len(@) - 1)]
    ELSE hourly

\* the first and the last field the code reads
DamagedFields == {"temperature_2m", "shortwave_radiation"}

Defects(rows) ==
    {<< "none", "" >>}
      \cup {<< "missing", f >> : f \in DamagedFields \cup {"time"}}
      \cup (IF rows = << >> THEN {} ELSE {<< "short", f >> : f \in DamagedFields})

Responses(rows) ==
    {Raised("ConnectionError")}
      \cup {Returned([status_code |-> 500, json |-> [reason |-> "error"]])}
      \cup {Returned([status_code |-> 200, json |-> [reason |-> "error"]])}
      \cup {Returned([status_code |-> 200, json |-> [hourly |-> Damage(Hourly(rows), d)]]) :
               d \in Defects(rows)}

\* variant: a failed request is sent a second time
RequestsRetried(response) ==
    IF response.exc # "none" THEN 2
    ELSE IF response.value.status_code # 200 THEN 2
    ELSE 1

\* the calls of requests.get made for one analysis, whatever comes back:
\* "response = requests.get(url)" stands outside any loop, a failure raises
Requests(response) == 1

\* dashboard: response = requests.get(url); non-200 raises; else response.json()
fetch_weather_data(latitude, longitude, response) ==
    IF response.exc # "none" THEN Raised(response.exc)
    ELSE IF response.value.status_code # 200 THEN Raised("API request failed")
    ELSE Returned(response.value.json)

\* d[k] for the keys read in order: the first key the dict lacks raises KeyError
FirstMissing(d, keys) ==
    IF \A i \in DOMAIN keys : keys[i] \in DOMAIN d THEN ""
    ELSE keys[CHOOSE i \in DOMAIN keys :
                 /\ keys[i] \notin DOMAIN d
                 /\ \A j \in 1..(i - 1) : keys[j] \in DOMAIN d]

\* variant: every missing value becomes 0
OrZero(x, default) == IF x # Null THEN x[1] ELSE 0

\* x if x is not None else default
OrDefault(x, default) == IF x # Null THEN x[1] ELSE default

-----------------------------------------------------------------------------
(***************************************************************************)
(* Dashboard, tab 2: the analysis block run when the button is clicked.    *)
(***************************************************************************)
\* variant: the scaling applied to the scaled power again
ScaledTwice(power, system_size, system_efficiency) ==
    MulDiv(MulDiv(MulDiv(MulDiv(power, system_size, 10), system_efficiency, 100),
                  system_size, 10), system_efficiency, 100)

\* scaled_power = power * system_size * (system_efficiency / 100)
ScaledPower(power, system_size, system_efficiency) ==
    MulDiv(MulDiv(power, system_size, 10), system_efficiency, 100)

\* the dict appended to excel_data
HourlyRow(timestamp, temp, direct, diffuse, sw, power) ==
    [Timestamp |-> timestamp, Date |-> date(timestamp), Hour |-> timestamp.hour,
     Temperature |-> temp, Direct |-> direct, Diffuse |-> diffuse, GHI |-> sw,
     Power |-> power, Energy |-> power]

\* the null handling, the power and its scaling for one parsed timestamp
DashboardSample(timestamp, temp, direct, diffuse, sw, latitude, longitude, angles, temp_coefficient, system_size, system_efficiency) ==
    HourlyRow(timestamp, temp, direct, diffuse, sw,
              ScaledPower(calculate_solar_power(latitude, longitude, angles.azimuth,
                                                angles.tilt, direct, diffuse, sw,
                                                timestamp, temp, temp_coefficient),
                          system_size, system_efficiency))

\* one iteration of "for i in range(len(times))": the row appended to excel_data
DashboardRow(hourly, i, latitude, longitude, angles, temp_coefficient, system_size, system_efficiency) ==
    DashboardSample(fromisoformat(hourly["time"][i]),
                    OrDefault(hourly["temperature_2m"][i], 20),
                    OrDefault(hourly["direct_normal_irradiance"][i], 0),
                    OrDefault(hourly["diffuse_radiation"][i], 0),
                    OrDefault(hourly["shortwave_radiation"][i], 0),
                    latitude, longitude, angles, temp_coefficient,
                    system_size, system_efficiency)

\* lst[i] raises IndexError when the list has no i-th entry
ShortAt(hourly, i) == \E f \in Range(ValueFields) : Len(hourly[f]) < i

\* the loop: excel_data after the last iteration, or IndexError with the rows
\* appended so far
RECURSIVE DashboardLoop(_, _, _, _, _, _, _, _, _)
DashboardLoop(hourly, i, excel_data, latitude, longitude, angles, temp_coefficient, system_size, system_efficiency) ==
    IF i > Len(hourly["time"]) THEN [exc |-> "none", value |-> excel_data]
    ELSE IF ShortAt(hourly, i) THEN [exc |-> "IndexError", value |-> excel_data]
    ELSE DashboardLoop(hourly, i + 1,
             Append(excel_data,
                    DashboardRow(hourly, i, latitude, longitude, angles, temp_coefficient,
                                 system_size, system_efficiency)),
             latitude, longitude, angles, temp_coefficient, system_size, system_efficiency)

\* electricity_rate = last_bill / last_kwh if both > 0 else 0.12, in 1/Scale $/kWh
ElectricityRate(sb) ==
    IF sb.last_bill > 0 /\ sb.last_kwh > 0 THEN (sb.last_bill * Scale) \div sb.last_kwh
    ELSE 1200

\* variant: the dict holds the widgets' defaults, not the values of this run
SystemParamsOfDefaults(sb, angles, temp_coefficient) ==
    [latitude |-> 3777, longitude |-> -12242,
     azimuth |-> angles.azimuth, tilt |-> angles.tilt,
     system_size |-> 50, panel_efficiency |-> 21,
     system_efficiency |-> 95,
     temp_coefficient |-> temp_coefficient,
     electricity_rate |-> 1200]

\* the dict stored under 'system_params'
SystemParams(sb, angles, temp_coefficient) ==
    [latitude |-> sb.latitude, longitude |-> sb.longitude,
     azimuth |-> angles.azimuth, tilt |-> angles.tilt,
     system_size |-> sb.system_size, panel_efficiency |-> sb.panel_efficiency,
     system_efficiency |-> sb.system_efficiency,
     temp_coefficient |-> temp_coefficient,
     electricity_rate |-> ElectricityRate(sb)]

\* variant: the rows computed before the exception are stored
AnalysisOutcomeOpen(session, looped, params) ==
    [session_state |-> [solar_data |-> looped.value, system_params |-> params],
     error |-> looped.exc]

\* what the try block leaves: st.session_state and the error shown, if any;
\* looped.value is the excel_data the loop ended with
AnalysisOutcome(session, looped, params) ==
    IF looped.exc # "none" THEN [session_state |-> session, error |-> looped.exc]
    ELSE [session_state |-> [solar_data |-> looped.value, system_params |-> params],
          error |-> "none"]

\* the block from "hourly = data['hourly']" on
ProcessData(sb, session, data, angles, temp_coefficient) ==
    IF "hourly" \notin DOMAIN data
    THEN AnalysisOutcome(session, Raised("KeyError"), << >>)
    ELSE IF FirstMissing(data["hourly"], HourlyFields) # ""
    THEN AnalysisOutcome(session, Raised("KeyError"), << >>)
    ELSE AnalysisOutcome(session,
             DashboardLoop(data["hourly"], 1, << >>, sb.latitude, sb.longitude, angles,
                           temp_coefficient, sb.system_size, sb.system_efficiency),
             SystemParams(sb, angles, temp_coefficient))

\* the block after "data = fetch_weather_data(latitude, longitude)"
ProcessFetched(sb, session, fetched) ==
    IF fetched.exc # "none" THEN AnalysisOutcome(session, fetched, << >>)
    ELSE ProcessData(sb, session, fetched.value,
                     calculate_optimal_angles(sb.latitude),
                     calculate_temperature_coefficient(sb.latitude))

\* try: fetch, read the five lists, loop, store; except Exception: st.error
AnalysisBlock(sb, session, response) ==
    ProcessFetched(sb, session, fetch_weather_data(sb.latitude, sb.longitude, response))

-----------------------------------------------------------------------------
(***************************************************************************)
(* Aggregation over the hourly frame.  An energy in kWh is the energy in   *)
(* Wh divided by 1000: the same count, in units of 1/(1000 * Scale) kWh.   *)
(***************************************************************************)
RECURSIVE SumEnergy(_)
SumEnergy(df) ==
    IF df = << >> THEN 0 ELSE df[1].Energy + SumEnergy(Tail(df))

DateLeq(a, b) ==
    \/ a.year < b.year
    \/ a.year = b.year /\ a.month < b.month
    \/ a.year = b.year /\ a.month = b.month /\ a.day <= b.day

\* the keys of a pandas groupby, in sorted order
RECURSIVE SortedDates(_)
SortedDates(S) ==
    IF S = {} THEN << >>
    ELSE LET m == CHOOSE x \in S : \A y \in S : DateLeq(x, y)
         IN  << m >> \o SortedDates(S \ {m})

\* df.groupby('Date')['Energy (Wh)'].sum().reset_index(), plus the kWh column
DailySummary(df) ==
    LET keys == SortedDates({ df[i].Date : i \in DOMAIN df })
    IN  [k \in DOMAIN keys |->
            LET wh == SumEnergy(SelectSeq(df, LAMBDA r : r.Date = keys[k]))
            IN  [Date |-> keys[k], Energy_Wh |-> wh, Energy_kWh |-> wh]]

\* variant: the last row holding the maximum
IdxMaxLast(daily_df) ==
    CHOOSE i \in DOMAIN daily_df :
        /\ \A j \in DOMAIN daily_df : daily_df[j].Energy_kWh <= daily_df[i].Energy_kWh
        /\ \A j \in (i + 1)..Len(daily_df) : daily_df[j].Energy_kWh < daily_df[i].Energy_kWh

\* Series.idxmax(): the first row holding the maximum
IdxMax(daily_df) ==
    CHOOSE i \in DOMAIN daily_df :
        /\ \A j \in DOMAIN daily_df : daily_df[j].Energy_kWh <= daily_df[i].Energy_kWh
        /\ \A j \in 1..(i - 1) : daily_df[j].Energy_kWh < daily_df[i].Energy_kWh

\* variant: the month without its year
to_month(d) == [year |-> 0, month |-> d.month]

\* pd.to_datetime(Date).dt.to_period('M')
to_period(d) == [year |-> d.year, month |-> d.month]

\* the first day of a period, to order the periods
start_time(p) == [year |-> p.year, month |-> p.month, day |-> 1]

\* variant: only the months of the year the series starts in
MonthlySummaryFirstYear(df) ==
    LET keys == SortedDates({ start_time(to_period(df[i].Date)) :
                                i \in { j \in DOMAIN df : df[j].Date.year = df[1].Date.year } })
    IN  [k \in DOMAIN keys |->
            LET wh == SumEnergy(SelectSeq(df,
                          LAMBDA r : start_time(to_period(r.Date)) = keys[k]))
            IN  [Month |-> [year |-> keys[k].year, month |-> keys[k].month],
                 Energy_Wh |-> wh, Energy_kWh |-> wh]]

\* monthly_df.groupby('Month')['Energy (Wh)'].sum().reset_index()
MonthlySummary(df) ==
    LET keys == SortedDates({ start_time(to_period(df[i].Date)) : i \in DOMAIN df })
    IN  [k \in DOMAIN keys |->
            LET wh == SumEnergy(SelectSeq(df,
                          LAMBDA r : start_time(to_period(r.Date)) = keys[k]))
            IN  [Month |-> [year |-> keys[k].year, month |-> keys[k].month],
                 Energy_Wh |-> wh, Energy_kWh |-> wh]]

(***************************************************************************)
(* Figures of the results block.  Units:                                   *)
(*   annual production   Wh (thousandths of a kWh), rounded down           *)
(*   money               thousandths of a dollar                           *)
(*   payback             hundredths of a year                              *)
(*   capacity factor     units of 1/Scale percent                          *)
(*   labels (':.1f')     tenths                                            *)
(***************************************************************************)
\* the float quotient a / c with 'places' decimal places, rounded down
RECURSIVE Digits(_, _, _, _)
Digits(q, r, c, places) ==
    IF places = 0 THEN q
    ELSE Digits(q * 10 + (r * 10) \div c, (r * 10) % c, c, places - 1)

Quotient(a, c, places) == Digits(a \div c, a % c, c, places)

\* format(x, '.1f') of a value given with 'places' decimal places, in tenths
RECURSIVE OneDecimal(_, _)
OneDecimal(x, places) ==
    IF places = 1 THEN x
    ELSE IF places = 2 THEN (x + 5) \div 10
    ELSE OneDecimal(x \div 10, places - 1)

\* total_energy = df['Energy (Wh)'].sum() / 1000; annual_production = total_energy
annual_production(df) == SumEnergy(df) \div Scale

HoursPerYear == 8760

\* variant: the hours of a leap year
CapacityFactorLeap(total_energy, system_size) ==
    Quotient(total_energy, system_size * 8784, 4)

\* (total_energy / (params['system_size'] * 8760)) * 100
CapacityFactor(total_energy, system_size) ==
    Quotient(total_energy, system_size * HoursPerYear, 4)

\* annual_savings = annual_production * electricity_rate
AnnualSavings(production, electricity_rate) == MulDiv(production, electricity_rate, Scale)

cost_per_kw == 1000

\* system_cost = params['system_size'] * cost_per_kw
SystemCost(system_size) == system_size * cost_per_kw * 100

\* variant: the quotient in whole years
PaybackWholeYears(system_cost, annual_savings) ==
    IF annual_savings > 0
    THEN [inf |-> FALSE, years |-> (system_cost \div annual_savings) * 100]
    ELSE [inf |-> TRUE, years |-> 0]

\* if annual_savings > 0: system_cost / annual_savings, else float('inf')
PaybackYears(system_cost, annual_savings) ==
    IF annual_savings > 0
    THEN [inf |-> FALSE, years |-> Quotient(system_cost, annual_savings, 2)]
    ELSE [inf |-> TRUE, years |-> 0]

\* variant: the value is always formatted
PaybackFormatted(payback_years) ==
    IF payback_years.inf THEN [text |-> "inf years", tenths |-> 0]
    ELSE [text |-> "years", tenths |-> OneDecimal(payback_years.years, 2)]

\* f'{payback_years:.1f} years' if payback_years < 100 else 'N/A'
PaybackLabel(payback_years) ==
    IF ~payback_years.inf /\ payback_years.years < 100 * 100
    THEN [text |-> "years", tenths |-> OneDecimal(payback_years.years, 2)]
    ELSE [text |-> "N/A", tenths |-> 0]

\* the rows of the savings table
SavingsTable(annual_savings, system_cost, payback_years) ==
    [annual_savings |-> annual_savings,
     system_cost |-> system_cost,
     payback_years |-> payback_years,
     payback |-> PaybackLabel(payback_years),
     lifetime_savings |-> annual_savings * 25 - system_cost,
     monthly_savings |-> annual_savings \div 12]

SavingsOf(annual_savings, system_cost) ==
    SavingsTable(annual_savings, system_cost, PaybackYears(system_cost, annual_savings))

\* the financial analysis of the results block
Financials(production, system_size, electricity_rate) ==
    SavingsOf(AnnualSavings(production, electricity_rate), SystemCost(system_size))

(***************************************************************************)
(* Dashboard, tab 2: the results block, run on every rerun of the page.    *)
(* It renders nothing when 'solar_data' is not in the session; with an     *)
(* empty frame (no columns) df['Energy (Wh)'] raises outside any try.      *)
(***************************************************************************)
Report(df, params, daily_df) ==
    [shown |-> TRUE, crash |-> "none",
     electricity_rate |-> params.electricity_rate,
     total_energy |-> SumEnergy(df),
     capacity_factor |-> CapacityFactor(annual_production(df), params.system_size),
     financials |-> Financials(annual_production(df), params.system_size,
                               params.electricity_rate),
     daily_df |-> daily_df,
     peak_day |-> daily_df[IdxMax(daily_df)],
     monthly_summary |-> MonthlySummary(df),
     hourly_sheet |-> df,
     params_sheet |-> params]

ResultsBlock(session) ==
    IF "solar_data" \notin DOMAIN session THEN [shown |-> FALSE, crash |-> "none"]
    ELSE IF session["solar_data"] = << >> THEN [shown |-> FALSE, crash |-> "KeyError"]
    ELSE Report(session["solar_data"], session["system_params"],
                DailySummary(session["solar_data"]))

-----------------------------------------------------------------------------
(***************************************************************************)
(* Batch script: analyze_last_year_production and main.                    *)
(***************************************************************************)
\* variant: the entry of a date is replaced by the latest sample
DictPut(d, k, v) ==
    IF \E j \in DOMAIN d : d[j].key = k
    THEN [j \in DOMAIN d |-> IF d[j].key = k THEN [key |-> k, value |-> v] ELSE d[j]]
    ELSE Append(d, [key |-> k, value |-> v])

\* daily_energy[date_key] = daily_energy.get(date_key, 0) + power; a dict
\* keeps its keys in insertion order: a sequence of [key, value]
DictAdd(d, k, v) ==
    IF \E j \in DOMAIN d : d[j].key = k
    THEN [j \in DOMAIN d |-> IF d[j].key = k THEN [key |-> k, value |-> d[j].value + v]
                             ELSE d[j]]
    ELSE Append(d, [key |-> k, value |-> v])

\* max(daily_energy, key=daily_energy.get): the first key holding the maximum
MaxKey(d) ==
    d[CHOOSE i \in DOMAIN d :
          /\ \A j \in DOMAIN d : d[j].value <= d[i].value
          /\ \A j \in 1..(i - 1) : d[j].value < d[i].value].key

\* one iteration of the script's loop: the row appended to excel_data
ScriptSample(timestamp, temp, direct, diffuse, sw, latitude, longitude, azimuth, tilt) ==
    HourlyRow(timestamp, temp, direct, diffuse, sw,
              calculate_power(latitude, longitude, azimuth, tilt,
                              direct, diffuse, sw, timestamp, temp))

ScriptRow(hourly, i, latitude, longitude, azimuth, tilt) ==
    ScriptSample(fromisoformat(hourly["time"][i]),
                 OrDefault(hourly["temperature_2m"][i], 20),
                 OrDefault(hourly["direct_normal_irradiance"][i], 0),
                 OrDefault(hourly["diffuse_radiation"][i], 0),
                 OrDefault(hourly["shortwave_radiation"][i], 0),
                 latitude, longitude, azimuth, tilt)

\* variant: a timestamp seen before is skipped
AccumulateOnce(acc, row) ==
    IF \E j \in DOMAIN acc.excel_data : acc.excel_data[j].Timestamp = row.Timestamp
    THEN acc
    ELSE [excel_data |-> Append(acc.excel_data, row),
          total_energy |-> acc.total_energy + row.Power,
          monthly_energy |-> [acc.monthly_energy EXCEPT ![row.Timestamp.month] = @ + row.Power],
          daily_energy |-> DictAdd(acc.daily_energy, row.Date, row.Power)]

\* the accumulators after one more row
Accumulate(acc, row) ==
    [excel_data |-> Append(acc.excel_data, row),
     total_energy |-> acc.total_energy + row.Power,
     monthly_energy |-> [acc.monthly_energy EXCEPT ![row.Timestamp.month] = @ + row.Power],
     daily_energy |-> DictAdd(acc.daily_energy, row.Date, row.Power)]

RECURSIVE ScriptLoop(_, _, _, _, _, _, _)
ScriptLoop(hourly, i, acc, latitude, longitude, azimuth, tilt) ==
    IF i > Len(hourly["time"]) THEN [exc |-> "none", value |-> acc]
    ELSE IF ShortAt(hourly, i) THEN [exc |-> "IndexError", value |-> acc]
    ELSE ScriptLoop(hourly, i + 1,
                    Accumulate(acc, ScriptRow(hourly, i, latitude, longitude, azimuth, tilt)),
                    latitude, longitude, azimuth, tilt)

\* DataFrame.round(2) of an energy in Wh, half to even
Round2(e) ==
    LET q == e \div 100
        r == e % 100
    IN  IF r > 50 \/ (r = 50 /\ q % 2 = 1) THEN (q + 1) * 100 ELSE q * 100

\* df.groupby('Date').agg({'Energy (Wh)': 'sum', ...}).round(2)
ScriptDailySheet(excel_data) ==
    LET keys == SortedDates({ excel_data[i].Date : i \in DOMAIN excel_data })
    IN  [k \in DOMAIN keys |->
            [Date |-> keys[k],
             Daily_Energy_Wh |->
                 Round2(SumEnergy(SelectSeq(excel_data, LAMBDA r : r.Date = keys[k])))]]

\* nothing printed after the configuration, no file written
NoOutput == [complete |-> FALSE]

\* daily_energy[key]
DictGet(d, k) == d[CHOOSE j \in DOMAIN d : d[j].key = k].value

\* the printed analysis, given the peak day
Printed(acc, peak_day) ==
    [total_energy |-> acc.total_energy,
     peak_day |-> peak_day,
     peak_energy |-> DictGet(acc.daily_energy, peak_day),
     monthly_energy |-> acc.monthly_energy]

\* what the script prints and writes once the loop has ended
ScriptOutput(acc, latitude, longitude, azimuth, tilt) ==
    [complete |-> TRUE,
     printed |-> Printed(acc, MaxKey(acc.daily_energy)),
     daily_energy |-> acc.daily_energy,
     exported |-> [hourly_sheet |-> acc.excel_data,
                   daily_sheet |-> ScriptDailySheet(acc.excel_data),
                   monthly_sheet |-> acc.monthly_energy,
                   params_sheet |-> [latitude |-> latitude, longitude |-> longitude,
                                     azimuth |-> azimuth, tilt |-> tilt,
                                     temp_coefficient |-> -40]]]

\* the accumulators before the loop
NoRows ==
    [excel_data |-> << >>, total_energy |-> 0,
     monthly_energy |-> [m \in 1..12 |-> 0], daily_energy |-> << >>]

\* after the loop: max() of an empty dict raises ValueError
AfterLoop(looped, latitude, longitude, azimuth, tilt) ==
    IF looped.exc # "none" THEN Raised(looped.exc)
    ELSE IF looped.value.daily_energy = << >> THEN Raised("ValueError")
    ELSE Returned(ScriptOutput(looped.value, latitude, longitude, azimuth, tilt))

\* the function from "data = response.json()" on
AnalyzeData(data, latitude, longitude, azimuth, tilt) ==
    IF "hourly" \notin DOMAIN data THEN Raised("KeyError")
    ELSE IF FirstMissing(data["hourly"], HourlyFields) # "" THEN Raised("KeyError")
    ELSE AfterLoop(ScriptLoop(data["hourly"], 1, NoRows, latitude, longitude, azimuth, tilt),
                   latitude, longitude, azimuth, tilt)

\* raises on a failed request, a missing key, a short list or an empty series
analyze_last_year_production(latitude, longitude, azimuth, tilt, response) ==
    IF response.exc # "none" THEN Raised(response.exc)
    ELSE IF response.value.status_code # 200 THEN Raised("API request failed")
    ELSE AnalyzeData(response.value.json, latitude, longitude, azimuth, tilt)

\* what main leaves on the console and on disk
MainOutcome(latitude, longitude, angles, analysed, fetches) ==
    [stage |-> "done", latitude |-> latitude, longitude |-> longitude,
     configuration |-> [azimuth |-> angles.azimuth, tilt |-> angles.tilt,
                        direction |-> get_direction(angles.azimuth)],
     fetches |-> fetches,
     error |-> analysed.exc,
     output |-> IF analysed.exc = "none" THEN analysed.value ELSE NoOutput]

\* print the configuration, then try: analyze ... except: print the error
MainWith(latitude, longitude, angles, response) ==
    MainOutcome(latitude, longitude, angles,
                analyze_last_year_production(latitude, longitude, angles.azimuth,
                                             angles.tilt, response),
                Requests(response))

main(latitude, longitude, response) ==
    MainWith(latitude, longitude,
             script_calculate_optimal_angles(latitude, longitude), response)

-----------------------------------------------------------------------------
(***************************************************************************)
(* Inputs.                                                                 *)
(***************************************************************************)
\* longest hourly series the provider returns
MaxSamples == 2

\* the first day of a trailing year at noon and at night, and noon of its last
\* day: the same month of another year
TimeVals ==
    { << 2025, 11, 10, 12, 0 >>, << 2025, 11, 10, 23, 0 >>, << 2026, 11, 9, 12, 0 >> }

\* between them every field is once a number and once None; the second is a
\* heat that turns the derating negative while the ground reflects light
WeatherVals ==
    { [temperature_2m |-> Null, diffuse_radiation |-> Some(100),
       direct_normal_irradiance |-> Some(600), shortwave_radiation |-> Null],
      [temperature_2m |-> Some(300), diffuse_radiation |-> Null,
       direct_normal_irradiance |-> Null, shortwave_radiation |-> Some(500)] }

RowVals ==
    { [time |-> t,
       temperature_2m |-> w.temperature_2m,
       diffuse_radiation |-> w.diffuse_radiation,
       direct_normal_irradiance |-> w.direct_normal_irradiance,
       shortwave_radiation |-> w.shortwave_radiation] :
          t \in TimeVals, w \in WeatherVals }

\* the provider's hourly rows, in chronological order (equal timestamps allowed)
Archives ==
    UNION { { a \in [1..n -> RowVals] :
                \A i \in 1..(n - 1) : IsoLeq(a[i].time, a[i + 1].time) } :
            n \in 0..MaxSamples }

\* sidebar widgets: st.number_input and st.slider keep a value within
\* [min_value, max_value]
WidgetOk(sb) ==
    /\ sb.latitude >= -9000 /\ sb.latitude <= 9000
    /\ sb.longitude >= -18000 /\ sb.longitude <= 18000
    /\ sb.panel_efficiency >= 15 /\ sb.panel_efficiency <= 25
    /\ sb.system_size >= 1 /\ sb.system_size <= 1000
    /\ sb.system_efficiency >= 85 /\ sb.system_efficiency <= 98
    /\ sb.last_bill >= 0 /\ sb.last_bill <= 10000
    /\ sb.last_kwh >= 0 /\ sb.last_kwh <= 50000

\* the widgets' value= defaults
DefaultSidebar ==
    [latitude |-> 3777, longitude |-> -12242, panel_efficiency |-> 21,
     system_size |-> 50, system_efficiency |-> 95, last_bill |-> 0, last_kwh |-> 0]

\* San Francisco, Sydney, a tropical site; a polar site, and two points off the map
Locations ==
    { << 3777, -12242 >>, << -3387, 15121 >>, << 1000, -6700 >>,
      << 7000, 2000 >>, << 10000, 0 >>, << 0, 20000 >> }

\* what a user types into the sidebar: the defaults, three other sites, a
\* latitude off the map and a system of no size
Typed ==
    { DefaultSidebar,
      [latitude |-> -3387, longitude |-> 15121, panel_efficiency |-> 18,
       system_size |-> 1, system_efficiency |-> 85, last_bill |-> 120, last_kwh |-> 800],
      [latitude |-> 1000, longitude |-> -6700, panel_efficiency |-> 21,
       system_size |-> 50, system_efficiency |-> 95, last_bill |-> 0, last_kwh |-> 0],
      [latitude |-> 7000, longitude |-> 2000, panel_efficiency |-> 18,
       system_size |-> 1, system_efficiency |-> 85, last_bill |-> 120, last_kwh |-> 800],
      [latitude |-> 10000, longitude |-> 0, panel_efficiency |-> 21,
       system_size |-> 50, system_efficiency |-> 95, last_bill |-> 0, last_kwh |-> 0],
      [latitude |-> 3777, longitude |-> -12242, panel_efficiency |-> 21,
       system_size |-> 0, system_efficiency |-> 95, last_bill |-> 0, last_kwh |-> 0] }

\* what the widgets hand to the page
SidebarVals == { sb \in Typed : WidgetOk(sb) }

-----------------------------------------------------------------------------
(***************************************************************************)
(* State.                                                                  *)
(*   entry          which program runs: "dashboard" or "script"            *)
(*   archive        the provider's rows for the requested window           *)
(*   sidebar        the dashboard's widget values                          *)
(*   session_state  st.session_state                                       *)
(*   page           what the last run of the dashboard page rendered       *)
(*   script_out     what the script printed and wrote                      *)
(*   fetched        what the last request to the provider came back with   *)
(*   probe, probed  arguments and results of the power functions called    *)
(*                  on their own                                           *)
(***************************************************************************)
VARIABLES entry, archive, sidebar, session_state, page, script_out, fetched, probe, probed

vars == << entry, archive, sidebar, session_state, page, script_out, fetched, probe, probed >>

\* no request made yet
NotSent == [exc |-> "not sent", value |-> Null]

\* no call made yet
NotCalled == [stage |-> "start"]

\* area = (system_size_kw * 1000) / (1000 * (efficiency_percent / 100)), in
\* 1/Scale m2 from tenths of a kW
calculate_panel_area(system_size_kw, efficiency_percent) ==
    (system_size_kw * 10 * Scale) \div efficiency_percent

\* tab 1: the configuration shown for the current sidebar
OptimalAnglesTab(sb) ==
    [angles |-> calculate_optimal_angles(sb.latitude),
     temp_coefficient |-> calculate_temperature_coefficient(sb.latitude),
     panel_area |-> calculate_panel_area(sb.system_size, sb.panel_efficiency)]

\* variant: the report takes the system size and the electricity rate from
\* the sidebar of this run
PageFromSidebar(sb, session, clicked, error, fetches) ==
    [tab1 |-> OptimalAnglesTab(sb),
     clicked |-> clicked,
     fetches |-> fetches,
     error |-> error,
     success |-> clicked /\ error = "none",
     results |-> IF "solar_data" \in DOMAIN session
                 THEN ResultsBlock([session EXCEPT !["system_params"] =
                          [@ EXCEPT !.system_size = sb.system_size,
                                    !.electricity_rate = ElectricityRate(sb)]])
                 ELSE ResultsBlock(session)]

\* one run of the page, top to bottom
Page(sb, session, clicked, error, fetches) ==
    [tab1 |-> OptimalAnglesTab(sb),
     clicked |-> clicked,
     fetches |-> fetches,
     error |-> error,
     success |-> clicked /\ error = "none",
     results |-> ResultsBlock(session)]

Init ==
    /\ entry \in {"dashboard", "script"}
    /\ archive \in Archives
    /\ sidebar = DefaultSidebar
    /\ session_state = << >>
    /\ page = Page(DefaultSidebar, << >>, FALSE, "none", 0)
    /\ script_out = NotCalled
    /\ fetched = NotSent
    /\ probe = Null
    /\ probed = NotCalled

\* a widget is changed, or a download button pressed: the page reruns without
\* the analysis block
Rerun(sb) ==
    /\ entry = "dashboard"
    /\ sidebar' = sb
    /\ page' = Page(sb, session_state, FALSE, "none", 0)
    /\ UNCHANGED << entry, archive, session_state, script_out, fetched, probe, probed >>

\* the page after the analysis block has run: the block's session and error,
\* then the results block
Clicked(outcome, fetches) ==
    /\ session_state' = outcome.session_state
    /\ page' = Page(sidebar, outcome.session_state, TRUE, outcome.error, fetches)

\* "Analyze Historical Data" is clicked: the page reruns with the analysis block
Analyze(response) ==
    /\ entry = "dashboard"
    /\ fetched' = response
    /\ Clicked(AnalysisBlock(sidebar, session_state, response), Requests(response))
    /\ UNCHANGED << entry, archive, sidebar, script_out, probe, probed >>

\* the script is run once with the two numbers typed in
RunScript(latitude, longitude, response) ==
    /\ entry = "script"
    /\ script_out = NotCalled
    /\ fetched' = response
    /\ script_out' = main(latitude, longitude, response)
    /\ UNCHANGED << entry, archive, sidebar, session_state, page, probe, probed >>

Next ==
    \/ \E sb \in SidebarVals : Rerun(sb)
    \/ \E response \in Responses(archive) : Analyze(response)
    \/ \E l \in Locations, response \in Responses(archive) : RunScript(l[1], l[2], response)

Spec == Init /\ [][Next]_vars

-----------------------------------------------------------------------------
(***************************************************************************)
(* The two power functions called on their own, with arguments no          *)
(* analysis need produce.                                                  *)
(***************************************************************************)
\* panel tilts: flat, pitched, upright
TiltVals == {0, 3000, 9000}

\* panel azimuths: north and south
AzimuthVals == {0, 18000}

\* direct normal, diffuse, shortwave
IrradianceVals == { << 600, 100, 700 >>, << 0, 0, 0 >>, << -600, 100, 500 >> }

TemperatureVals == {20, 300}

CoefficientVals == {-45, -40, -35}

ProbeVals ==
    [lat : {l[1] : l \in Locations}, lon : {0},
     azimuth : AzimuthVals, tilt : TiltVals, irradiance : IrradianceVals,
     timestamp : {fromisoformat(t) : t \in TimeVals},
     temperature : TemperatureVals, temp_coefficient : CoefficientVals,
     system_size : {1, 50}, system_efficiency : {85}]

InitPower ==
    /\ entry = "probe"
    /\ archive = << >>
    /\ sidebar = DefaultSidebar
    /\ session_state = << >>
    /\ page = Page(DefaultSidebar, << >>, FALSE, "none", 0)
    /\ script_out = NotCalled
    /\ fetched = NotSent
    /\ probe \in ProbeVals
    /\ probed = NotCalled

\* what the two functions return for the same arguments, and the dashboard's
\* power as the analysis block scales it
Called(p, power) ==
    [stage |-> "done",
     elevation |-> Elevation(p.lat, p.timestamp),
     dashboard |-> power,
     scaled |-> ScaledPower(power, p.system_size, p.system_efficiency),
     script |-> calculate_power(p.lat, p.lon, p.azimuth, p.tilt, p.irradiance[1],
                                p.irradiance[2], p.irradiance[3], p.timestamp,
                                p.temperature)]

CallPower ==
    /\ entry = "probe"
    /\ probed = NotCalled
    /\ probed' = Called(probe,
                        calculate_solar_power(probe.lat, probe.lon, probe.azimuth,
                            probe.tilt, probe.irradiance[1], probe.irradiance[2],
                            probe.irradiance[3], probe.timestamp,
                            probe.temperature, probe.temp_coefficient))
    /\ UNCHANGED << entry, archive, sidebar, session_state, page, script_out, fetched, probe >>

NextPower == CallPower

SpecPower == InitPower /\ [][NextPower]_vars

-----------------------------------------------------------------------------
(***************************************************************************)
(* The orientation and coefficient functions called on their own, at any   *)
(* latitude a caller may pass, on the map or off it.                       *)
(***************************************************************************)
\* the band boundaries of both functions and the hundredth of a degree below
BandEdges == {1499, 1500, 2499, 2500, 2999, 3000, 4499, 4500, 4999, 5000, 5999, 6000}

\* every tenth degree from -100 to 100, the band edges in both hemispheres,
\* and the hundredth of a degree either side of the equator
LatitudeVals ==
    {k * 1000 : k \in -10..10} \cup BandEdges \cup {-e : e \in BandEdges} \cup {-1, 1}

LongitudeVals == {-12242, 0, 15121}

AngleProbes ==
    [latitude : LatitudeVals, longitude : LongitudeVals,
     other : BandEdges \cup {0, -3000, 9000}]

InitAngles ==
    /\ entry = "probe"
    /\ archive = << >>
    /\ sidebar = DefaultSidebar
    /\ session_state = << >>
    /\ page = Page(DefaultSidebar, << >>, FALSE, "none", 0)
    /\ script_out = NotCalled
    /\ fetched = NotSent
    /\ probe \in AngleProbes
    /\ probed = NotCalled

\* both calculate_optimal_angles for one location, and the coefficient at
\* two latitudes
CallAngles ==
    /\ entry = "probe"
    /\ probed = NotCalled
    /\ probed' = [stage |-> "angles",
                  dashboard |-> calculate_optimal_angles(probe.latitude),
                  script |-> script_calculate_optimal_angles(probe.latitude, probe.longitude),
                  facing |-> get_direction(
                      script_calculate_optimal_angles(probe.latitude, probe.longitude).azimuth),
                  temp_coefficient |-> calculate_temperature_coefficient(probe.latitude),
                  other_coefficient |-> calculate_temperature_coefficient(probe.other)]
    /\ UNCHANGED << entry, archive, sidebar, session_state, page, script_out, fetched, probe >>

NextAngles == CallAngles

SpecAngles == InitAngles /\ [][NextAngles]_vars

-----------------------------------------------------------------------------
(***************************************************************************)
(* The figures of the results block as functions of the annual energy and  *)
(* the stored parameters: a year of production is beyond the series the    *)
(* dashboard behaviours above run over.                                    *)
(***************************************************************************)
\* annual energies in Wh: none, 1 kWh, 400 kWh, 1460 kWh, 7500 kWh, 9000 kWh
ProductionVals == {0, 1000, 400000, 1460000, 7500000, 9000000}

\* 0.1 kW, 5 kW, 10 kW
SystemSizeVals == {1, 50, 100}

\* the default 0.12 $/kWh, and rates from a bill
RateVals == {1200, 1500, 3000}

ReportProbes ==
    [production : ProductionVals, system_size : SystemSizeVals,
     electricity_rate : RateVals]

InitReport ==
    /\ entry = "probe"
    /\ archive = << >>
    /\ sidebar = DefaultSidebar
    /\ session_state = << >>
    /\ page = Page(DefaultSidebar, << >>, FALSE, "none", 0)
    /\ script_out = NotCalled
    /\ fetched = NotSent
    /\ probe \in ReportProbes
    /\ probed = NotCalled

\* the capacity factor card and the savings table for one annual energy
CallReport ==
    /\ entry = "probe"
    /\ probed = NotCalled
    /\ probed' = [stage |-> "report",
                  capacity_factor |-> CapacityFactor(probe.production, probe.system_size),
                  financials |-> Financials(probe.production, probe.system_size,
                                            probe.electricity_rate)]
    /\ UNCHANGED << entry, archive, sidebar, session_state, page, script_out, fetched, probe >>

NextReport == CallReport

SpecReport == InitReport /\ [][NextReport]_vars

-----------------------------------------------------------------------------
(***************************************************************************)
(* The requested date window.  datetime.now() is a naive local datetime;   *)
(* subtracting a timedelta of whole days moves the calendar date and keeps *)
(* the time of day, which strftime('%Y-%m-%d') drops.                      *)
(***************************************************************************)
days_in_month(y, m) ==
    IF m = 2 THEN (IF IsLeap(y) THEN 29 ELSE 28)
    ELSE IF m \in {4, 6, 9, 11} THEN 30 ELSE 31

\* date.toordinal(): the days from 0001-01-01, that day counting 1
toordinal(d) ==
    (d.year - 1) * 365 + (d.year - 1) \div 4 - (d.year - 1) \div 100
      + (d.year - 1) \div 400 + tm_yday(d)

\* the calendar dates the windows fall in
CalendarYears == 2022..2027

Calendar ==
    { d \in [year : CalendarYears, month : 1..12, day : 1..31] :
          d.day <= days_in_month(d.year, d.month) }

\* date.fromordinal(n)
fromordinal(n) == CHOOSE d \in Calendar : toordinal(d) = n

\* (now - timedelta(days=n)).date()
minus_days(now, n) == fromordinal(toordinal(date(now)) - n)

\* strftime('%Y-%m-%d')
strftime(d) == << d.year, d.month, d.day >>

\* the start_date and end_date of a request, given its end date
WindowEnding(end_date, days) ==
    [start_date |-> strftime(fromordinal(toordinal(end_date) - days)),
     end_date |-> strftime(end_date)]

\* variant: a window of 365 calendar dates
fetch_window_365(now) == WindowEnding(minus_days(now, 2), 364)

\* dashboard: end_date = now - 2 days, start_date = end_date - 365 days
fetch_window(now) == WindowEnding(minus_days(now, 2), 365)

\* script: end_date = now - 2 days, start_date = end_date - 365 days
script_window(now) == WindowEnding(minus_days(now, 2), 365)

\* datetime.now(): every day of January to March and of October to December
\* of 2024 to 2026, early and late in the day
NowVals ==
    { n \in [year : 2024..2026, month : {1, 2, 3, 10, 11, 12}, day : 1..31,
              hour : {0, 23}] :
          n.day <= days_in_month(n.year, n.month) }

InitWindow ==
    /\ entry = "probe"
    /\ archive = << >>
    /\ sidebar = DefaultSidebar
    /\ session_state = << >>
    /\ page = Page(DefaultSidebar, << >>, FALSE, "none", 0)
    /\ script_out = NotCalled
    /\ fetched = NotSent
    /\ probe \in NowVals
    /\ probed = NotCalled

\* the window each entry point puts into its request at one moment
CallWindow ==
    /\ entry = "probe"
    /\ probed = NotCalled
    /\ probed' = [stage |-> "window",
                  dashboard |-> fetch_window(probe),
                  script |-> script_window(probe)]
    /\ UNCHANGED << entry, archive, sidebar, session_state, page, script_out, fetched, probe >>

NextWindow == CallWindow

SpecWindow == InitWindow /\ [][NextWindow]_vars

-----------------------------------------------------------------------------
(***************************************************************************)
(* Properties.                                                             *)
(***************************************************************************)
\* the series an analysis left behind
DashboardHolds == entry = "dashboard" /\ "solar_data" \in DOMAIN session_state

ScriptHolds == script_out.stage = "done" /\ script_out.output.complete

\* a request that failed: a transport error or a status other than 200
FetchFailed(r) ==
    \/ r.exc = "ConnectionError"
    \/ r.exc = "none" /\ r.value.status_code # 200

\* C1: when the weather fetch of an analysis request fails, the page of that
\* request shows no series and no report, also after an earlier success in the
\* session, and the script prints and exports none.
C1NothingAfterFailedFetch ==
    FetchFailed(fetched) =>
        /\ page.clicked => ~page.results.shown
        /\ script_out.stage = "done" => ~script_out.output.complete

\* C2: whenever the computed solar elevation is <= 0, calculate_solar_power
\* and calculate_power both return exactly 0, whatever the irradiance, the
\* temperature, the tilt and the azimuth.
C2ZeroBelowHorizon ==
    (probed.stage = "done" /\ probed.elevation <= 0) =>
        (probed.dashboard = 0 /\ probed.script = 0)

\* the sun below the horizon while the sky is given as bright
C2Witness ==
    /\ probed.stage = "done"
    /\ probed.elevation <= 0
    /\ probe.irradiance[1] > 0 /\ probe.irradiance[2] > 0
    /\ probe.tilt = 3000

\* C3: the power either function returns is >= 0 for all inputs, and so is
\* the dashboard's power after scaling by system size and efficiency.
C3PowerNonNegative ==
    probed.stage = "done" =>
        (probed.dashboard >= 0 /\ probed.script >= 0 /\ probed.scaled >= 0)

\* the sun up, a negative direct irradiance or a heat that makes the derating
\* negative, and a power of 0
C3Witness ==
    /\ probed.stage = "done"
    /\ probed.elevation > 0
    /\ probe.irradiance[1] < 0 \/ probe.temperature = 300
    /\ probed.dashboard = 0 /\ probed.script = 0

\* the coefficient of a |latitude| band, in hundredths of a percent per degree
BandCoefficient(latitude) ==
    IF Abs(latitude) < 1500 THEN -45
    ELSE IF Abs(latitude) < 3000 THEN -42
    ELSE IF Abs(latitude) < 4500 THEN -40
    ELSE IF Abs(latitude) < 6000 THEN -38
    ELSE -35

\* 1 + (T - 25) * (coef / 100)
Derating(temperature, coef) == Scale + (temperature - 25) * coef

\* the irradiance on the panel, from the values a stored sample carries
RowRadiation(row, latitude, azimuth, tilt) ==
    PanelRadiation(latitude, azimuth, tilt, row.Direct, row.Diffuse, row.GHI,
                   row.Timestamp, Elevation(latitude, row.Timestamp))

\* a stored sample's power when its derating uses coef
DeratedPower(row, latitude, azimuth, tilt, coef) ==
    IF Elevation(latitude, row.Timestamp) <= 0 THEN 0
    ELSE Max(0, MulFix(RowRadiation(row, latitude, azimuth, tilt),
                       Derating(row.Temperature, coef)))

DashboardDeratedBy(rows, p, coef) ==
    \A i \in DOMAIN rows :
        rows[i].Power = ScaledPower(DeratedPower(rows[i], p.latitude, p.azimuth, p.tilt, coef),
                                    p.system_size, p.system_efficiency)

ScriptDeratedBy(rows, latitude, configuration, coef) ==
    \A i \in DOMAIN rows :
        rows[i].Power = MulFix(DeratedPower(rows[i], latitude, configuration.azimuth,
                                            configuration.tilt, coef), 9500)

C4DashboardByBand ==
    DashboardHolds =>
        /\ session_state.system_params.temp_coefficient
             = BandCoefficient(session_state.system_params.latitude)
        /\ DashboardDeratedBy(session_state.solar_data, session_state.system_params,
                              BandCoefficient(session_state.system_params.latitude))

\* C4 as stated: in both entry points every sample's derating uses the
\* coefficient of the location's |latitude| band.
C4DeratingByBand ==
    /\ C4DashboardByBand
    /\ ScriptHolds =>
           ScriptDeratedBy(script_out.output.exported.hourly_sheet, script_out.latitude,
                           script_out.configuration, BandCoefficient(script_out.latitude))

\* C4: the dashboard derates every sample by the coefficient of the
\* location's |latitude| band; the script derates every sample by -0.4 %/degree
\* at every latitude, the coefficient its parameter sheet reports.
C4DeratingByEntryPoint ==
    /\ C4DashboardByBand
    /\ ScriptHolds =>
           /\ script_out.output.exported.params_sheet.temp_coefficient = -40
           /\ ScriptDeratedBy(script_out.output.exported.hourly_sheet, script_out.latitude,
                              script_out.configuration, -40)

\* the script at a tropical site, band -0.45, with a sample that produces
\* power away from 25 degrees
C4Witness ==
    /\ ScriptHolds
    /\ script_out.latitude = 1000
    /\ \E i \in DOMAIN script_out.output.exported.hourly_sheet :
           /\ script_out.output.exported.hourly_sheet[i].Power > 0
           /\ script_out.output.exported.hourly_sheet[i].Temperature = 20

\* the days of a series and the energy of each
Dates(rows) == { rows[i].Date : i \in DOMAIN rows }

DayTotal(rows, d) == SumEnergy(SelectSeq(rows, LAMBDA r : r.Date = d))

\* d holds the largest daily total, and is the earliest day that does
IsPeak(rows, d) ==
    /\ d \in Dates(rows)
    /\ \A e \in Dates(rows) :
           /\ DayTotal(rows, e) <= DayTotal(rows, d)
           /\ DayTotal(rows, e) = DayTotal(rows, d) => DateLeq(d, e)

\* C5: the peak day reported over a chronologically ordered series is a date
\* whose daily total is the maximum of the daily totals, the earliest such date
\* when several share it, in the dashboard and in the script.
C5PeakDay ==
    /\ page.results.shown =>
           /\ IsPeak(session_state.solar_data, page.results.peak_day.Date)
           /\ page.results.peak_day.Energy_Wh
                = DayTotal(session_state.solar_data, page.results.peak_day.Date)
    /\ ScriptHolds =>
           /\ IsPeak(script_out.output.exported.hourly_sheet,
                     script_out.output.printed.peak_day)
           /\ script_out.output.printed.peak_energy
                = DayTotal(script_out.output.exported.hourly_sheet,
                           script_out.output.printed.peak_day)

\* two days share the maximum and the first of them is reported
C5Witness ==
    /\ page.results.shown
    /\ Len(page.results.daily_df) = 2
    /\ page.results.daily_df[1].Energy_Wh = page.results.daily_df[2].Energy_Wh
    /\ page.results.peak_day.Date = page.results.daily_df[1].Date

\* the calendar months of a series and the energy of each
YearMonths(rows) ==
    { << rows[i].Timestamp.year, rows[i].Timestamp.month >> : i \in DOMAIN rows }

MonthTotal(rows, y, m) ==
    SumEnergy(SelectSeq(rows, LAMBDA r : r.Timestamp.year = y /\ r.Timestamp.month = m))

MonthNumberTotal(rows, m) ==
    SumEnergy(SelectSeq(rows, LAMBDA r : r.Timestamp.month = m))

\* the dashboard's monthly summary has one row per calendar month of the
\* series, holding the energy of that month's samples
C6DashboardByYearMonth ==
    page.results.shown =>
        /\ Len(page.results.monthly_summary) = Cardinality(YearMonths(session_state.solar_data))
        /\ \A k \in DOMAIN page.results.monthly_summary :
               /\ << page.results.monthly_summary[k].Month.year,
                     page.results.monthly_summary[k].Month.month >>
                    \in YearMonths(session_state.solar_data)
               /\ page.results.monthly_summary[k].Energy_Wh
                    = MonthTotal(session_state.solar_data,
                                 page.results.monthly_summary[k].Month.year,
                                 page.results.monthly_summary[k].Month.month)
        /\ \A k, l \in DOMAIN page.results.monthly_summary :
               page.results.monthly_summary[k].Month = page.results.monthly_summary[l].Month
                   => k = l

\* C6 as stated: in both entry points the total reported for a calendar month
\* is the energy of exactly the samples of that year and month.
C6MonthlyByYearMonth ==
    /\ C6DashboardByYearMonth
    /\ ScriptHolds =>
           \A ym \in YearMonths(script_out.output.exported.hourly_sheet) :
               script_out.output.exported.monthly_sheet[ym[2]]
                 = MonthTotal(script_out.output.exported.hourly_sheet, ym[1], ym[2])

\* C6: the dashboard reports one total per calendar month (year and month);
\* the script reports twelve totals, one per month number, each the energy of
\* all samples of that month number whatever their year.
C6MonthlyByEntryPoint ==
    /\ C6DashboardByYearMonth
    /\ ScriptHolds =>
           /\ script_out.output.printed.monthly_energy
                = script_out.output.exported.monthly_sheet
           /\ \A m \in 1..12 :
                  script_out.output.exported.monthly_sheet[m]
                    = MonthNumberTotal(script_out.output.exported.hourly_sheet, m)

\* the script over a window that starts and ends in November, with energy
\* in both Novembers
C6Witness ==
    /\ ScriptHolds
    /\ MonthTotal(script_out.output.exported.hourly_sheet, 2025, 11) > 0
    /\ MonthTotal(script_out.output.exported.hourly_sheet, 2026, 11) > 0

\* coordinates on the map
ValidLocation(latitude, longitude) ==
    /\ latitude >= -9000 /\ latitude <= 9000
    /\ longitude >= -18000 /\ longitude <= 18000

\* C7: a latitude outside [-90, 90], a longitude outside [-180, 180] or a
\* non-positive system size never reaches a computation: the dashboard never
\* holds such a value, and the script given one issues no fetch and produces
\* no output.
C7InvalidInputRejected ==
    /\ entry = "dashboard" =>
           /\ ValidLocation(sidebar.latitude, sidebar.longitude)
           /\ sidebar.system_size > 0
    /\ (script_out.stage = "done"
          /\ ~ValidLocation(script_out.latitude, script_out.longitude)) =>
           (script_out.fetches = 0 /\ ~script_out.output.complete)

\* a 200 response whose payload lacks a requested field or has a value list
\* shorter than the timestamp list
Malformed(r) ==
    /\ r.exc = "none"
    /\ r.value.status_code = 200
    /\ \/ "hourly" \notin DOMAIN r.value.json
       \/ \E f \in Range(HourlyFields) : f \notin DOMAIN r.value.json.hourly
       \/ \E f \in Range(ValueFields) :
              Len(r.value.json.hourly[f]) < Len(r.value.json.hourly["time"])

PayloadErrors == {"KeyError", "IndexError"}

\* C8: an analysis that receives a partial or malformed payload ends in an
\* error and leaves the session as it was; what the page shows comes from the
\* session as it was, and the script prints no totals and writes no file.
C8FailsClosed ==
    [][Malformed(fetched') =>
         /\ session_state' = session_state
         /\ page'.clicked => (page'.error \in PayloadErrors /\ ~page'.success)
         /\ page'.results.shown =>
                (/\ "solar_data" \in DOMAIN session_state
                 /\ page'.results.hourly_sheet = session_state.solar_data)
         /\ script_out'.stage = "done" =>
                (script_out'.error \in PayloadErrors /\ script_out'.output = NoOutput)]_vars

\* a value list ran out after the first of two hours
C8Witness ==
    /\ Malformed(fetched)
    /\ Len(archive) = 2
    /\ page.clicked
    /\ page.error = "IndexError"

\* value if value is not None else default
Substituted(v, default) == IF v = Null THEN default ELSE v[1]

Ingested(row, given) ==
    /\ row.Temperature = Substituted(given.temperature_2m, 20)
    /\ row.Diffuse = Substituted(given.diffuse_radiation, 0)
    /\ row.Direct = Substituted(given.direct_normal_irradiance, 0)
    /\ row.GHI = Substituted(given.shortwave_radiation, 0)
    /\ {row.Temperature, row.Diffuse, row.Direct, row.GHI, row.Power, row.Energy} \subseteq Int

IngestedAll(rows) ==
    /\ Len(rows) = Len(archive)
    /\ \A i \in DOMAIN rows : Ingested(rows[i], archive[i])

\* C9: in every stored sample a null temperature has become 20, a null
\* diffuse, direct-normal or global irradiance has become 0, a non-null value
\* is the provider's value, and values, powers and totals are numbers.
C9NullsSubstituted ==
    /\ DashboardHolds =>
           IngestedAll(session_state.solar_data)
    /\ page.results.shown => page.results.total_energy \in Int
    /\ ScriptHolds =>
           /\ IngestedAll(script_out.output.exported.hourly_sheet)
           /\ script_out.output.printed.total_energy \in Int

\* an hour with a null temperature and a given direct irradiance, stored
C9Witness ==
    /\ DashboardHolds
    /\ \E i \in DOMAIN session_state.solar_data :
           /\ archive[i].temperature_2m = Null
           /\ archive[i].direct_normal_irradiance = Some(600)
           /\ session_state.solar_data[i].Temperature = 20
           /\ session_state.solar_data[i].Direct = 600

\* the orientation a stored parameter set names
AnglesOf(p) == [azimuth |-> p.azimuth, tilt |-> p.tilt]

\* C10: after a successful analysis the series has one sample per entry of
\* the provider's timestamp sequence, the i-th sample computed from the i-th
\* timestamp and weather values, equal timestamps included.
C10OneSamplePerTimestamp ==
    /\ DashboardHolds =>
           /\ Len(session_state.solar_data) = Len(archive)
           /\ \A i \in DOMAIN archive :
                  session_state.solar_data[i]
                    = DashboardRow(Hourly(archive), i,
                                   session_state.system_params.latitude,
                                   session_state.system_params.longitude,
                                   AnglesOf(session_state.system_params),
                                   session_state.system_params.temp_coefficient,
                                   session_state.system_params.system_size,
                                   session_state.system_params.system_efficiency)
    /\ ScriptHolds =>
           /\ Len(script_out.output.exported.hourly_sheet) = Len(archive)
           /\ \A i \in DOMAIN archive :
                  script_out.output.exported.hourly_sheet[i]
                    = ScriptRow(Hourly(archive), i, script_out.latitude,
                                script_out.longitude, script_out.configuration.azimuth,
                                script_out.configuration.tilt)

\* the provider sent the same timestamp twice and both samples are kept
C10Witness ==
    /\ ScriptHolds
    /\ Len(archive) = 2
    /\ archive[1].time = archive[2].time
    /\ Len(script_out.output.exported.hourly_sheet) = 2


\* C11: the optimal azimuth is exactly 180 at every latitude >= 0, the
\* equator included, and exactly 0 at every latitude < 0, whatever the
\* longitude, and the dashboard and the script return the same azimuth.
C11AzimuthByHemisphere ==
    probed.stage = "angles" =>
        /\ probed.dashboard.azimuth = (IF probe.latitude >= 0 THEN 18000 ELSE 0)
        /\ probed.script.azimuth = (IF probe.latitude >= 0 THEN 18000 ELSE 0)
        /\ probed.script.azimuth = probed.dashboard.azimuth

\* the equator, away from the prime meridian
C11Witness ==
    /\ probed.stage = "angles"
    /\ probe.latitude = 0
    /\ probe.longitude = 15121
    /\ probed.dashboard.azimuth = 18000

\* |lat| x 0.87 below 25 degrees, |lat| from 25 to below 50, |lat| x 0.9 from 50
BandTilt(latitude) ==
    IF Abs(latitude) < 2500 THEN (Abs(latitude) * 87) \div 100
    ELSE IF Abs(latitude) < 5000 THEN Abs(latitude)
    ELSE (Abs(latitude) * 9) \div 10

\* C12: at every latitude in [-90, 90] the optimal tilt is |lat| x 0.87 for
\* |lat| < 25, |lat| for 25 <= |lat| < 50 and |lat| x 0.9 for |lat| >= 50, so
\* tilt(25) = 25 and tilt(50) = 45; it is the same for +lat and -lat and in
\* both entry points.
C12TiltByBand ==
    (probed.stage = "angles" /\ Abs(probe.latitude) <= 9000) =>
        /\ probed.dashboard.tilt = BandTilt(probe.latitude)
        /\ probed.script.tilt = BandTilt(probe.latitude)
        /\ probe.latitude \in {-2500, 2500} => probed.dashboard.tilt = 2500
        /\ probe.latitude \in {-5000, 5000} => probed.dashboard.tilt = 4500

\* 25 degrees south: the temperate rule applies
C12Witness ==
    /\ probed.stage = "angles"
    /\ probe.latitude = -2500
    /\ probed.script.tilt = 2500
    /\ probed.dashboard.zone = "Temperate"

\* C13: the temperature coefficient is -0.45 for |lat| < 15, -0.42 for
\* 15 <= |lat| < 30, -0.40 for 30 <= |lat| < 45, -0.38 for 45 <= |lat| < 60 and
\* -0.35 for |lat| >= 60; it is always negative and never decreases as |lat|
\* grows.
C13CoefficientBands ==
    probed.stage = "angles" =>
        /\ probed.temp_coefficient = BandCoefficient(probe.latitude)
        /\ probed.temp_coefficient < 0
        /\ Abs(probe.latitude) <= Abs(probe.other) =>
               probed.temp_coefficient <= probed.other_coefficient
        /\ Abs(probe.latitude) = Abs(probe.other) =>
               probed.temp_coefficient = probed.other_coefficient

\* a band edge compared with the hundredth of a degree below it
C13Witness ==
    /\ probed.stage = "angles"
    /\ probe.latitude = 4499 /\ probe.other = 4500
    /\ probed.temp_coefficient = -40 /\ probed.other_coefficient = -38

\* C14: when the annual savings of a report are 0, the payback period is
\* float('inf') and is shown as 'N/A'; no report shows an infinite value, and
\* the results block does not raise while forming the figures.
C14PaybackNotApplicable ==
    page.results.shown =>
        /\ page.results.crash = "none"
        /\ page.results.financials.payback.text \in {"years", "N/A"}
        /\ page.results.financials.annual_savings = 0 =>
               /\ page.results.financials.payback_years.inf
               /\ page.results.financials.payback.text = "N/A"

\* a report over a series without energy: no savings, payback not applicable
C14Witness ==
    /\ page.results.shown
    /\ page.results.total_energy = 0
    /\ page.results.financials.annual_savings = 0
    /\ page.results.financials.payback.text = "N/A"

\* C15 as stated: whenever the annual savings are greater than 0 the payback
\* period is reported as a number, 'N/A' appearing only with no savings.
C15NumericWheneverSavings ==
    probed.stage = "report" =>
        (probed.financials.annual_savings > 0
            <=> probed.financials.payback.text = "years")

\* C15: the system cost is system_size x 1000 dollars; the payback period is
\* reported as a number exactly when the annual savings are greater than 0
\* and system_cost / annual_savings is below 100 years, and the number is
\* then system_cost / annual_savings to one decimal place; it is 'N/A'
\* without savings and from 100 years on.
C15PaybackBelowCentury ==
    probed.stage = "report" =>
        /\ probed.financials.system_cost = probe.system_size * 100 * 1000
        /\ probed.financials.payback.text = "years"
             <=> /\ probed.financials.annual_savings > 0
                 /\ probed.financials.system_cost
                      < 100 * probed.financials.annual_savings
        /\ probed.financials.payback.text # "years"
             => probed.financials.payback.text = "N/A"
        /\ probed.financials.payback.text = "years"
             => 2 * Abs(probed.financials.payback.tenths
                            * probed.financials.annual_savings
                        - 10 * probed.financials.system_cost)
                  <= probed.financials.annual_savings

\* 5 kW and 7500 kWh at 0.12 $/kWh: 900 dollars a year, 5.6 years
C15Witness ==
    /\ probed.stage = "report"
    /\ probe.system_size = 50
    /\ probed.financials.annual_savings = 900 * 1000
    /\ probed.financials.payback = [text |-> "years", tenths |-> 56]

\* the energy of the samples of one date, added sample by sample
RECURSIVE EnergyOf(_, _)
EnergyOf(rows, I) ==
    IF I = {} THEN 0
    ELSE LET i == CHOOSE j \in I : TRUE
         IN  rows[i].Energy + EnergyOf(rows, I \ {i})

EnergyOn(rows, d) == EnergyOf(rows, { i \in DOMAIN rows : rows[i].Date = d })

\* C16: every calendar date of the series has exactly one daily total, and it
\* is the sum of the energies of exactly the samples of that date: in the
\* dashboard's daily frame, in the script's daily_energy dict, and, rounded to
\* two decimal places of a Wh, in the script's Daily Summary sheet.
C16DailyTotals ==
    /\ page.results.shown =>
           /\ { page.results.daily_df[k].Date : k \in DOMAIN page.results.daily_df }
                = Dates(session_state.solar_data)
           /\ Len(page.results.daily_df) = Cardinality(Dates(session_state.solar_data))
           /\ \A k \in DOMAIN page.results.daily_df :
                  page.results.daily_df[k].Energy_Wh
                    = EnergyOn(session_state.solar_data, page.results.daily_df[k].Date)
    /\ ScriptHolds =>
           /\ { script_out.output.daily_energy[k].key
                    : k \in DOMAIN script_out.output.daily_energy }
                = Dates(script_out.output.exported.hourly_sheet)
           /\ Len(script_out.output.daily_energy)
                = Cardinality(Dates(script_out.output.exported.hourly_sheet))
           /\ \A k \in DOMAIN script_out.output.daily_energy :
                  script_out.output.daily_energy[k].value
                    = EnergyOn(script_out.output.exported.hourly_sheet,
                               script_out.output.daily_energy[k].key)
           /\ { script_out.output.exported.daily_sheet[k].Date
                    : k \in DOMAIN script_out.output.exported.daily_sheet }
                = Dates(script_out.output.exported.hourly_sheet)
           /\ Len(script_out.output.exported.daily_sheet)
                = Cardinality(Dates(script_out.output.exported.hourly_sheet))
           /\ \A k \in DOMAIN script_out.output.exported.daily_sheet :
                  2 * Abs(script_out.output.exported.daily_sheet[k].Daily_Energy_Wh
                          - EnergyOn(script_out.output.exported.hourly_sheet,
                                     script_out.output.exported.daily_sheet[k].Date))
                    <= 100

\* the script has added two productive samples of one date into one total
C16Witness ==
    /\ ScriptHolds
    /\ \E k \in DOMAIN script_out.output.daily_energy :
           /\ Cardinality({ i \in DOMAIN script_out.output.exported.hourly_sheet :
                              /\ script_out.output.exported.hourly_sheet[i].Date
                                   = script_out.output.daily_energy[k].key
                              /\ script_out.output.exported.hourly_sheet[i].Energy > 0 }) = 2
           /\ script_out.output.daily_energy[k].value
                > script_out.output.exported.hourly_sheet[1].Energy

\* power x system_size x (system_efficiency / 100)
OnceScaled(power, system_size, system_efficiency) ==
    MulDiv(MulDiv(power, system_size, 10), system_efficiency, 100)

\* the sum over the samples I of the unscaled power of each, scaled once
RECURSIVE SumOnceScaled(_, _, _)
SumOnceScaled(rows, p, I) ==
    IF I = {} THEN 0
    ELSE LET i == CHOOSE j \in I : TRUE
         IN  OnceScaled(DeratedPower(rows[i], p.latitude, p.azimuth, p.tilt,
                                     p.temp_coefficient),
                        p.system_size, p.system_efficiency)
               + SumOnceScaled(rows, p, I \ {i})

RECURSIVE SumWh(_)
SumWh(summary) ==
    IF summary = << >> THEN 0 ELSE summary[1].Energy_Wh + SumWh(Tail(summary))

\* C17: the annual energy of a dashboard report is the sum over the stored
\* samples of the unscaled power of each multiplied once by the stored
\* system size and system efficiency / 100; the daily and the monthly totals
\* add up to the same energy, in Wh and in kWh, no factor being applied when
\* they are formed.
C17ScaledOnce ==
    page.results.shown =>
        /\ page.results.total_energy
             = SumOnceScaled(session_state.solar_data, session_state.system_params,
                             DOMAIN session_state.solar_data)
        /\ SumWh(page.results.daily_df) = page.results.total_energy
        /\ SumWh(page.results.monthly_summary) = page.results.total_energy
        /\ \A k \in DOMAIN page.results.daily_df :
               page.results.daily_df[k].Energy_kWh = page.results.daily_df[k].Energy_Wh
        /\ \A k \in DOMAIN page.results.monthly_summary :
               page.results.monthly_summary[k].Energy_kWh
                 = page.results.monthly_summary[k].Energy_Wh

\* a report over a productive series of a system that is not 1 kW at 100 %,
\* shown while the sidebar holds another system size
C17Witness ==
    /\ page.results.shown
    /\ page.results.total_energy > 0
    /\ session_state.system_params.system_size # 10
    /\ sidebar.system_size # session_state.system_params.system_size

DayLeq(a, b) ==
    \/ a[1] < b[1]
    \/ a[1] = b[1] /\ a[2] < b[2]
    \/ a[1] = b[1] /\ a[2] = b[2] /\ a[3] <= b[3]

\* the calendar dates from a to b, both included
DatesFromTo(a, b) ==
    { d \in (a[1]..b[1]) \X (1..12) \X (1..31) :
          /\ d[3] <= days_in_month(d[1], d[2])
          /\ DayLeq(a, d)
          /\ DayLeq(d, b) }

\* C19: the requested window ends 2 days before today and starts 367 days
\* before today, 365 days before its end, so it covers 366 calendar dates;
\* both entry points request the same window at the same moment.
C19RequestWindow ==
    probed.stage = "window" =>
        /\ Cardinality(DatesFromTo(probed.dashboard.end_date,
                                   << probe.year, probe.month, probe.day >>)) = 2 + 1
        /\ Cardinality(DatesFromTo(probed.dashboard.start_date,
                                   << probe.year, probe.month, probe.day >>)) = 367 + 1
        /\ Cardinality(DatesFromTo(probed.dashboard.start_date,
                                   probed.dashboard.end_date)) = 366
        /\ probed.script = probed.dashboard

\* a window that holds a 29th of February, requested on 2 March 2024
C19Witness ==
    /\ probed.stage = "window"
    /\ probe.year = 2024 /\ probe.month = 3 /\ probe.day = 2
    /\ probed.dashboard.end_date = << 2024, 2, 29 >>
    /\ probed.script.start_date = << 2023, 3, 1 >>

\* C20: the capacity factor of a report is annual energy in kWh /
\* (system_size in kW x 8760) x 100, rounded down here to 1/Scale percent,
\* with the system size stored with the series, whatever the sidebar holds
\* now, and with 8760 hours whatever the samples and dates of the series.
C20CapacityFactor ==
    page.results.shown =>
        /\ page.results.capacity_factor * (session_state.system_params.system_size * 8760)
             <= (page.results.total_energy \div Scale) * Scale
        /\ (page.results.total_energy \div Scale) * Scale
             < (page.results.capacity_factor + 1)
                 * (session_state.system_params.system_size * 8760)

\* a report with a capacity factor above 0, of a series of two samples
\* scaled for another system size than the sidebar holds now
C20Witness ==
    /\ page.results.shown
    /\ page.results.capacity_factor > 0
    /\ Len(session_state.solar_data) = 2
    /\ sidebar.system_size # session_state.system_params.system_size

\* C21: for the same latitude, panel azimuth and tilt, timestamp, irradiance
\* and temperature, and the dashboard's coefficient at -0.40 %/degree,
\* calculate_power returns 0.95 times what calculate_solar_power returns, and
\* either returns 0 exactly when the other does.
C21SamePowerModel ==
    (probed.stage = "done" /\ probe.temp_coefficient = -40) =>
        /\ probed.script = MulFix(probed.dashboard, 9500)
        /\ probed.script = 0 <=> probed.dashboard = 0

\* the sun up over a bright sky, coefficient -0.40: both functions return a
\* power, the script's the smaller
C21Witness ==
    /\ probed.stage = "done"
    /\ probe.temp_coefficient = -40
    /\ probed.elevation > 0
    /\ probed.dashboard > 0
    /\ probed.script > 0
    /\ probed.script < probed.dashboard

\* the stored parameters are those of the run that computed the stored series
SameAnalysis(rows, p) ==
    /\ p.azimuth = calculate_optimal_angles(p.latitude).azimuth
    /\ p.tilt = calculate_optimal_angles(p.latitude).tilt
    /\ p.temp_coefficient = calculate_temperature_coefficient(p.latitude)
    /\ DashboardDeratedBy(rows, p, p.temp_coefficient)

\* the stored parameters are the values the sidebar holds
ParamsOf(p, sb) ==
    /\ p.latitude = sb.latitude
    /\ p.longitude = sb.longitude
    /\ p.system_size = sb.system_size
    /\ p.panel_efficiency = sb.panel_efficiency
    /\ p.system_efficiency = sb.system_efficiency
    /\ p.electricity_rate = ElectricityRate(sb)

SessionPaired ==
    /\ "solar_data" \in DOMAIN session_state <=> "system_params" \in DOMAIN session_state
    /\ "solar_data" \in DOMAIN session_state =>
           SameAnalysis(session_state.solar_data, session_state.system_params)
    /\ page.success =>
           /\ "solar_data" \in DOMAIN session_state
           /\ ParamsOf(session_state.system_params, sidebar)

\* C22: in every dashboard session 'solar_data' and 'system_params' are both
\* absent or both present; when present the series is the one computed with
\* the stored location, orientation, coefficient, size and efficiency, and
\* right after a successful analysis the stored parameters are the sidebar's;
\* an analysis that ends in an error leaves the session as it was.
C22SessionPaired ==
    /\ []SessionPaired
    /\ [][(page'.clicked /\ page'.error # "none") => session_state' = session_state]_vars

\* a failed analysis at another location and system size than the stored
\* pair, which is still that of the earlier analysis
C22Witness ==
    /\ page.clicked
    /\ page.error # "none"
    /\ DashboardHolds
    /\ Len(session_state.solar_data) > 0
    /\ session_state.system_params.latitude # sidebar.latitude
    /\ session_state.system_params.system_size # sidebar.system_size

\* C23: a run of the page without the analysis button, whatever the sidebar
\* then holds, shows the report the page showed before, figure for figure:
\* annual energy, daily and monthly totals, peak day, capacity factor,
\* financial figures and the sheets offered for download.
C23ReportUnchanged ==
    [][(~page'.clicked /\ page.results.shown) =>
           /\ session_state' = session_state
           /\ page'.results = page.results]_vars

\* a productive report shown again while the sidebar holds another location,
\* system size, efficiency and bill than the stored analysis
C23Witness ==
    /\ ~page.clicked
    /\ page.results.shown
    /\ page.results.total_energy > 0
    /\ sidebar.latitude # session_state.system_params.latitude
    /\ sidebar.longitude # session_state.system_params.longitude
    /\ sidebar.system_size # session_state.system_params.system_size
    /\ sidebar.system_efficiency # session_state.system_params.system_efficiency
    /\ ElectricityRate(sidebar) # session_state.system_params.electricity_rate
    /\ page.results.params_sheet = session_state.system_params

\* the sum of the values of a daily_energy dict
RECURSIVE SumValues(_)
SumValues(d) == IF d = << >> THEN 0 ELSE d[1].value + SumValues(Tail(d))

\* the sum of the twelve monthly totals
RECURSIVE SumMonths(_, _)
SumMonths(monthly_energy, m) ==
    IF m = 0 THEN 0 ELSE monthly_energy[m] + SumMonths(monthly_energy, m - 1)

\* the sum of the Daily Summary sheet
RECURSIVE SumSheet(_)
SumSheet(sheet) ==
    IF sheet = << >> THEN 0 ELSE sheet[1].Daily_Energy_Wh + SumSheet(Tail(sheet))

C24Dashboard ==
    page.results.shown =>
        /\ page.results.total_energy
             = EnergyOf(session_state.solar_data, DOMAIN session_state.solar_data)
        /\ SumWh(page.results.daily_df) = page.results.total_energy
        /\ SumWh(page.results.monthly_summary) = page.results.total_energy
        /\ \A i \in DOMAIN session_state.solar_data :
               /\ Cardinality({ k \in DOMAIN page.results.daily_df :
                                  page.results.daily_df[k].Date
                                    = session_state.solar_data[i].Date }) = 1
               /\ Cardinality({ k \in DOMAIN page.results.monthly_summary :
                                  /\ page.results.monthly_summary[k].Month.year
                                       = session_state.solar_data[i].Date.year
                                  /\ page.results.monthly_summary[k].Month.month
                                       = session_state.solar_data[i].Date.month }) = 1

C24Script ==
    ScriptHolds =>
        /\ script_out.output.printed.total_energy
             = EnergyOf(script_out.output.exported.hourly_sheet,
                        DOMAIN script_out.output.exported.hourly_sheet)
        /\ SumValues(script_out.output.daily_energy) = script_out.output.printed.total_energy
        /\ SumMonths(script_out.output.printed.monthly_energy, 12)
             = script_out.output.printed.total_energy
        /\ script_out.output.exported.monthly_sheet = script_out.output.printed.monthly_energy
        /\ \A i \in DOMAIN script_out.output.exported.hourly_sheet :
               Cardinality({ k \in DOMAIN script_out.output.daily_energy :
                               script_out.output.daily_energy[k].key
                                 = script_out.output.exported.hourly_sheet[i].Date }) = 1
        /\ 2 * Abs(SumSheet(script_out.output.exported.daily_sheet)
                   - script_out.output.printed.total_energy)
             <= 100 * Len(script_out.output.exported.daily_sheet)

\* C24: in both entry points the daily totals and the monthly totals each add
\* up to the annual total, which is the sum of the energies of all samples,
\* and every sample's date has exactly one daily total and one monthly total;
\* the script's Daily Summary sheet adds up to the same total within the
\* rounding of each day to two decimal places of a Wh.
C24EnergyConserved == C24Dashboard /\ C24Script

\* a dashboard report over two productive samples a year apart: two daily
\* totals, two monthly totals, one annual total
C24Witness ==
    /\ page.results.shown
    /\ Len(session_state.solar_data) = 2
    /\ \A i \in 1..2 : session_state.solar_data[i].Energy > 0
    /\ Len(page.results.daily_df) = 2
    /\ Len(page.results.monthly_summary) = 2
    /\ page.results.total_energy
         = session_state.solar_data[1].Energy + session_state.solar_data[2].Energy

\* C25: at every latitude the dashboard's labels agree with its angles:
\* 'Northern' and 'South' exactly with azimuth 180, 'Southern' and 'North'
\* exactly with azimuth 0; 'Tropical', 'Temperate' and 'High Latitude' name
\* the |latitude| band whose tilt rule gave the tilt; and the script's
\* get_direction of its optimal azimuth is the dashboard's direction.
C25LabelsConsistent ==
    probed.stage = "angles" =>
        /\ probed.dashboard.azimuth \in {0, 18000}
        /\ probed.dashboard.azimuth = 18000
             <=> (probed.dashboard.hemisphere = "Northern"
                    /\ probed.dashboard.direction = "South")
        /\ probed.dashboard.azimuth = 0
             <=> (probed.dashboard.hemisphere = "Southern"
                    /\ probed.dashboard.direction = "North")
        /\ probed.dashboard.zone = "Tropical"
             <=> Abs(probe.latitude) < 2500
        /\ probed.dashboard.zone = "Temperate"
             <=> (2500 <= Abs(probe.latitude) /\ Abs(probe.latitude) < 5000)
        /\ probed.dashboard.zone = "High Latitude"
             <=> 5000 <= Abs(probe.latitude)
        /\ probed.dashboard.zone = "Tropical"
             => probed.dashboard.tilt = (Abs(probe.latitude) * 87) \div 100
        /\ probed.dashboard.zone = "Temperate"
             => probed.dashboard.tilt = Abs(probe.latitude)
        /\ probed.dashboard.zone = "High Latitude"
             => probed.dashboard.tilt = (Abs(probe.latitude) * 9) \div 10
        /\ probed.facing = probed.dashboard.direction

\* a site at 50 degrees south: north-facing in both entry points, the first
\* latitude of the high-latitude band
C25Witness ==
    /\ probed.stage = "angles"
    /\ probe.latitude = -5000
    /\ probed.dashboard.azimuth = 0
    /\ probed.dashboard.hemisphere = "Southern"
    /\ probed.dashboard.zone = "High Latitude"
    /\ probed.facing = "North"

=============================================================================
